---- MODULE Spec2Model ----
(***************************************************************************)
(* A model of usbCamera.py: the USBCamera session object (open_camera,     *)
(* show_live_camera, take_picture, add_pic_mark, release_camera, __del__)   *)
(* together with the part of the cv2 / time / filesystem world it acts on. *)
(*                                                                         *)
(* Conventions                                                             *)
(*  - A cv2.VideoCapture object is a handle id 1..MaxHandles; None is 0.   *)
(*    `opened` is the set of handle objects whose device is open           *)
(*    (isOpened() is TRUE).  Dropping the last reference to an open        *)
(*    VideoCapture closes its device (reference counting).                 *)
(*  - The clock `now` counts ticks of 1/TicksPerSec second; time.time() is *)
(*    `now`, time.strftime("%Y%m%d_%H%M%S") is the whole second of `now`.  *)
(*  - VideoCapture.get() returns a float: device values are fixed-point    *)
(*    numbers with Scale units per 1, and int() truncates them.            *)
(*  - Every method call is one action, except the preview loop, which is   *)
(*    one action per loop iteration.  `op` is the method that took the     *)
(*    last step, `ev` the library calls and log records of that step in    *)
(*    program order, `result` how the call ended for its caller.           *)
(*  - Spec starts from a constructed USBCamera and lets a caller use its   *)
(*    methods in any order; MainSpec starts at the script's entry, with    *)
(*    show_and_select_camera before the construction; FaultSpec is Spec    *)
(*    with a device object whose release() raises.                         *)
(***************************************************************************)
EXTENDS Integers, Sequences, FiniteSets, TLC

VARIABLES
    device_index,      \* self.device_index
    frame_resolution,  \* self.frame_resolution, <<width, height>>
    frame_rate,        \* self.frame_rate
    camera,            \* self.camera: None or a VideoCapture handle
    nextHandle,        \* id of the next VideoCapture object constructed
    opened,            \* handles whose device is open
    dev,               \* negotiated parameters of the session's open device
    released,          \* history: release() was called on the current handle
    was,               \* history: the lifecycle state in which the last step started
    now,               \* the clock, in ticks
    files,             \* the output directory: file name -> content
    ncap,              \* frames delivered to take_picture so far
    pc,                \* "idle", "preview", "exited" (sys.exit), "deleted"
    exitStatus,        \* process exit status once pc = "exited"
    op,                \* method that took the last step
    result,            \* "none", "running", "returned", "raised", "exit"
    ev,                \* library calls and log records of the last step
    timeout,           \* show_live_camera: timeout, seconds
    start_time,        \* show_live_camera: start_time, ticks
    elapsed_time,      \* show_live_camera: elapsed_time of the last iteration, ticks
    act,               \* show_live_camera: act_frame_width/height/fps
    reads,             \* frame reads of the running/last preview (saturating)
    shows,             \* imshow calls of the running/last preview (saturating)
    polls,             \* waitKey calls of the running/last preview (saturating)
    windows,           \* a display window is open
    sel,               \* show_and_select_camera: what it saw and returned
    held               \* most devices the session held open at one instant of the last step

vars == <<device_index, frame_resolution, frame_rate, camera, nextHandle, opened,
          dev, released, was, now, files, ncap, pc, exitStatus, op, result, ev,
          timeout, start_time, elapsed_time, act, reads, shows, polls, windows,
          sel, held>>

(***************************************************************************)
(* Bounds of the model                                                     *)
(***************************************************************************)
TicksPerSec == 2
MaxTime == 5
MaxHandles == 2
MaxTimeout == 1
MaxCount == 2
MaxCaptures == 2
MaxCams == 2
Scale == 100

(***************************************************************************)
(* Program values                                                          *)
(***************************************************************************)
None == 0

\* a call starts up to one second after the step before it
MaxDelay == TicksPerSec

\* the index a USBCamera is constructed with when main is not used: the
\* default of line 79 (main passes the selected one, 0..MaxCams-1)
DeviceIndexes == {0}

\* device_index while no USBCamera object exists
NoIndex == -1

\* what the operator types at the prompt of line 68: an integer or not one
Typed == {"int", "nan"}
Inputs == (-1)..MaxCams

\* show_and_select_camera has not run (the class is used without main)
NoSel == [cameras_num |-> 0, asked |-> FALSE, index |-> 0, returned |-> FALSE, id |-> 0]
Resolutions == {<<1280, 720>>}
FrameRates == {15, 30}
Labels == {"test"}
Counts == {"1"}

\* What a device reports before any parameter is applied, and after it
\* ignores one: its own mode, with a fractional frame rate.
DevDefault == [w |-> 640 * Scale, h |-> 480 * Scale, fps |-> 30 * Scale - 3]
NoDev == [w |-> 0, h |-> 0, fps |-> 0]
NoAct == [w |-> 0, h |-> 0, fps |-> 0]

Seconds == 0..(MaxTime \div TicksPerSec)
FileNames == Labels \X Seconds \X Counts
NoFile == [cap |-> 0, marks |-> 0, at |-> 0]

\* int(x) of a non-negative float
ToInt(x) == x \div Scale

\* strftime with a format that stops at the minute ("%Y%m%d_%H%M")
strftime_Minutes(t) == t \div (60 * TicksPerSec)

\* time.strftime("%Y%m%d_%H%M%S"): the clock at seconds resolution
strftime(t) == t \div TicksPerSec

Inc(n) == IF n < MaxCount THEN n + 1 ELSE n

isOpened(h, o) == h \in o

\* VideoCapture.get(prop): 0 on a handle whose device is not open
Get(h, o, d, prop) == IF isOpened(h, o) THEN d[prop] ELSE 0

\* The lifecycle state of the session: "Unopened" before any VideoCapture is
\* assigned, "Open" while the handle's device is open, "Released" once
\* release() was called on the handle, "Failed" for a handle that never opened.
Life(cam, o, rel) ==
    IF cam = None THEN "Unopened"
    ELSE IF isOpened(cam, o) THEN "Open"
    ELSE IF rel THEN "Released"
    ELSE "Failed"

Has(e, s) == \E i \in 1..Len(s) : s[i] = e

Count(S, s) == Cardinality({i \in 1..Len(s) : s[i] \in S})

PreviewLocalsReset ==
    /\ timeout' = 0
    /\ start_time' = 0
    /\ elapsed_time' = 0
    /\ act' = NoAct
    /\ reads' = 0
    /\ shows' = 0
    /\ polls' = 0

(***************************************************************************)
(* __init__                                                                *)
(***************************************************************************)
Init ==
    /\ device_index \in DeviceIndexes
    /\ frame_resolution \in Resolutions
    /\ frame_rate \in FrameRates
    /\ camera = None
    /\ nextHandle = 1
    /\ opened = {}
    /\ dev = NoDev
    /\ released = FALSE
    /\ was = "Unopened"
    /\ now = 0
    /\ files = [f \in FileNames |-> NoFile]
    /\ ncap = 0
    /\ pc = "idle"
    /\ exitStatus = 0
    /\ op = "__init__"
    /\ result = "none"
    /\ ev = <<>>
    /\ timeout = 0
    /\ start_time = 0
    /\ elapsed_time = 0
    /\ act = NoAct
    /\ reads = 0
    /\ shows = 0
    /\ polls = 0
    /\ windows = FALSE
    /\ sel = NoSel
    /\ held = 0

(***************************************************************************)
(* open_camera.  co: what cv2.VideoCapture(index) does ("opened", "closed",*)
(* "raise"); oo: what camera.open(index) does ("ok", "fail", "raise");     *)
(* so: for each of width, height, fps whether the device accepts the       *)
(* requested value (TRUE) or keeps its own (FALSE).  The value is the      *)
(* session and device state the method leaves, with its events.            *)
(***************************************************************************)
SetParams(d, so, res, rate) ==
    [w   |-> IF so[1] THEN res[1] * Scale ELSE d.w,
     h   |-> IF so[2] THEN res[2] * Scale ELSE d.h,
     fps |-> IF so[3] THEN rate * Scale ELSE d.fps]

SetEvents == <<"set.width", "set.height", "set.fps", "set.autofocus">>

\* SecondAttempt with the test of line 96 dropped: open() is always called again
SecondAttempt_Always(h, o) == TRUE

\* line 96: if not self.camera.isOpened()
SecondAttempt(h, o) == ~ isOpened(h, o)

Max3(a, b, c) ==
    IF a >= b /\ a >= c THEN a ELSE IF b >= c THEN b ELSE c

OpenResult(cam, o, nh, d, t, res, rate, co, oo, so) ==
    IF co = "raise"
    THEN \* the constructor raised: self.camera is not assigned
         [camera |-> cam, opened |-> o, nextHandle |-> nh, dev |-> d, now |-> t,
          held |-> Cardinality(o),
          ev |-> <<"VideoCapture.raise", "log.error.open">>]
    ELSE LET h  == nh
             \* the old VideoCapture object loses its last reference
             o1 == (o \ {cam}) \cup (IF co = "opened" THEN {h} ELSE {})
             second == SecondAttempt(h, o1)
             o2 == IF second /\ oo = "ok" THEN o1 \cup {h} ELSE o1
             e1 == <<"VideoCapture." \o co>>
                     \o (IF second THEN <<"open." \o oo>> ELSE <<>>)
             \* the constructor has opened the new device before the
             \* assignment of line 95 drops the old object
             hd == Max3(Cardinality(o),
                        Cardinality(o \cup (IF co = "opened" THEN {h} ELSE {})),
                        Cardinality(o2))
         IN  IF second /\ oo = "raise"
             THEN [camera |-> h, opened |-> o2, nextHandle |-> nh + 1,
                   dev |-> NoDev, now |-> t, held |-> hd,
                   ev |-> e1 \o <<"log.error.open">>]
             ELSE [camera |-> h, opened |-> o2, nextHandle |-> nh + 1,
                   dev |-> IF isOpened(h, o2)
                           THEN SetParams(DevDefault, so, res, rate)
                           ELSE NoDev,
                   now |-> t + TicksPerSec, held |-> hd,
                   ev |-> e1 \o <<"sleep">> \o SetEvents \o <<"log.info.config">>]

\* a device takes or refuses a resolution (a video mode) as a whole
SetOutcomes == {so \in [1..3 -> BOOLEAN] : so[1] = so[2]}
AllAccepted == [i \in 1..3 |-> TRUE]

\* The outcomes <<co, oo, so>> of the device calls of one open_camera call;
\* an outcome of a call that is not made is fixed.
OpenChoices ==
    {<<"raise", "ok", AllAccepted>>, <<"closed", "fail", AllAccepted>>,
     <<"closed", "raise", AllAccepted>>}
    \cup {<<co, "ok", so>> : co \in {"opened", "closed"}, so \in SetOutcomes}

open_camera ==
    /\ pc = "idle"
    /\ nextHandle <= MaxHandles
    /\ \E dl \in 0..MaxDelay, oc \in OpenChoices :
         LET r == OpenResult(camera, opened, nextHandle, dev, now + dl,
                             frame_resolution, frame_rate, oc[1], oc[2], oc[3])
         IN  /\ r.now <= MaxTime
             /\ camera' = r.camera
             /\ opened' = r.opened
             /\ nextHandle' = r.nextHandle
             /\ dev' = r.dev
             /\ now' = r.now
             /\ ev' = r.ev
             /\ held' = r.held
    /\ released' = FALSE
    /\ was' = Life(camera, opened, released)
    /\ op' = "open_camera"
    /\ result' = "returned"
    /\ PreviewLocalsReset
    /\ UNCHANGED <<sel, device_index, frame_resolution, frame_rate, files, ncap, pc,
                   exitStatus, windows>>

(***************************************************************************)
(* release_camera and __del__                                              *)
(***************************************************************************)
\* ReleaseResult without the guard of line 199: release() on None raises
ReleaseResult_NoGuard(cam, o) ==
    IF cam # None
    THEN [opened |-> o \ {cam}, did |-> TRUE, result |-> "returned",
          ev |-> <<IF isOpened(cam, o) THEN "release.closed" ELSE "release.noop",
                   "log.info.released">>]
    ELSE [opened |-> o, did |-> FALSE, result |-> "raised",
          ev |-> <<"raise.AttributeError">>]

\* ReleaseResult that logs the release without calling camera.release()
ReleaseResult_NoRelease(cam, o) ==
    IF cam # None
    THEN [opened |-> o, did |-> TRUE, result |-> "returned",
          ev |-> <<"log.info.released">>]
    ELSE [opened |-> o, did |-> FALSE, result |-> "returned", ev |-> <<>>]

ReleaseResult(cam, o) ==
    IF cam # None
    THEN [opened |-> o \ {cam}, did |-> TRUE, result |-> "returned",
          ev |-> <<IF isOpened(cam, o) THEN "release.closed" ELSE "release.noop",
                   "log.info.released">>]
    ELSE [opened |-> o, did |-> FALSE, result |-> "returned", ev |-> <<>>]

release_camera ==
    /\ pc = "idle"
    /\ \E dl \in 0..MaxDelay :
         /\ now + dl <= MaxTime
         /\ now' = now + dl
    /\ LET r == ReleaseResult(camera, opened)
       IN  /\ opened' = r.opened
           /\ released' = (released \/ r.did)
           /\ dev' = IF isOpened(camera, r.opened) THEN dev ELSE NoDev
           /\ ev' = r.ev
           /\ result' = r.result
    /\ was' = Life(camera, opened, released)
    /\ op' = "release_camera"
    /\ PreviewLocalsReset
    /\ held' = Cardinality(opened)
    /\ UNCHANGED <<sel, device_index, frame_resolution, frame_rate, camera, nextHandle,
                   files, ncap, pc, exitStatus, windows>>

\* the interpreter ignores an exception raised in __del__
__del__ ==
    /\ pc \in {"idle", "exited"}
    /\ device_index # NoIndex
    /\ LET r == ReleaseResult(camera, opened)
       IN  /\ opened' = r.opened
           /\ released' = (released \/ r.did)
           /\ dev' = IF isOpened(camera, r.opened) THEN dev ELSE NoDev
           /\ ev' = r.ev
    /\ was' = Life(camera, opened, released)
    /\ pc' = "deleted"
    /\ op' = "__del__"
    /\ result' = "returned"
    /\ PreviewLocalsReset
    /\ held' = Cardinality(opened)
    /\ UNCHANGED <<sel, device_index, frame_resolution, frame_rate, camera, nextHandle,
                   now, files, ncap, exitStatus, windows>>

(***************************************************************************)
(* show_live_camera: the part before the loop, then one action per loop    *)
(* iteration.  rd: what camera.read() returns ("ok", "fail"); a handle     *)
(* whose device is not open delivers no frame.  key: what waitKey(1)       *)
(* returns ("q", "none").                                                  *)
(***************************************************************************)
ReadOutcomes(h, o) == IF isOpened(h, o) THEN {"ok", "fail"} ELSE {"fail"}
Keys == {"q", "none"}

\* LoopBreak that lets one more second pass
LoopBreak_Late(key, elapsed, tmo) == key = "q" \/ elapsed > (tmo + 1) * TicksPerSec

\* LoopBreak without the timeout test
LoopBreak_KeyOnly(key, elapsed, tmo) == key = "q"

\* line 150: cv2.waitKey(1) == ord('q') or elapsed_time > timeout
LoopBreak(key, elapsed, tmo) == key = "q" \/ elapsed > tmo * TicksPerSec

\* ActualInfo taken from the requested configuration instead of the device
ActualInfo_Requested(cam, o, d) ==
    [w |-> frame_resolution[1], h |-> frame_resolution[2], fps |-> frame_rate]

\* lines 121-123: the values preview renders
ActualInfo(cam, o, d) ==
    [w   |-> ToInt(Get(cam, o, d, "w")),
     h   |-> ToInt(Get(cam, o, d, "h")),
     fps |-> ToInt(Get(cam, o, d, "fps"))]

\* lines 110-112: the configuration open_camera logs
OpenLogConfig == [w |-> frame_resolution[1], h |-> frame_resolution[2], fps |-> frame_rate]

\* PreviewReadFailed without sys.exit(1): the loop goes on
PreviewReadFailed_NoExit(cam, o) ==
    [opened |-> o \ {cam}, released |-> TRUE, pc |-> "preview", exitStatus |-> 0,
     result |-> "running",
     ev |-> <<"read.fail", IF isOpened(cam, o) THEN "release.closed" ELSE "release.noop",
              "log.error.noframe">>]

\* lines 135-138: the frame read of the preview loop failed
PreviewReadFailed(cam, o) ==
    [opened |-> o \ {cam}, released |-> TRUE, pc |-> "exited", exitStatus |-> 1,
     result |-> "exit",
     ev |-> <<"read.fail", IF isOpened(cam, o) THEN "release.closed" ELSE "release.noop",
              "log.error.noframe", "exit.1">>]

\* PreviewBreak that releases the camera when the preview ends
PreviewBreak_Releases(cam, o) ==
    [opened |-> o \ {cam}, windows |-> FALSE,
     ev |-> <<"destroyAllWindows", "waitKey">>]

\* lines 151-153: the loop was left by break; the camera is not touched
PreviewBreak(cam, o) ==
    [opened |-> o, windows |-> FALSE,
     ev |-> <<"destroyAllWindows", "waitKey">>]

show_live_camera_start ==
    /\ pc = "idle"
    /\ \E dl \in 0..MaxDelay, tmo \in 0..MaxTimeout :
         /\ now + dl + tmo * TicksPerSec + 1 <= MaxTime
         /\ now' = now + dl
         /\ IF camera = None
            THEN \* self.camera.get on None
                 /\ ev' = <<"raise.AttributeError">>
                 /\ result' = "raised"
                 /\ pc' = "idle"
                 /\ PreviewLocalsReset
            ELSE /\ act' = ActualInfo(camera, opened, dev)
                 /\ ev' = <<"get.width", "get.height", "get.fps", "print.actual">>
                 /\ result' = "running"
                 /\ pc' = "preview"
                 /\ timeout' = tmo
                 /\ start_time' = now'
                 /\ elapsed_time' = 0
                 /\ reads' = 0
                 /\ shows' = 0
                 /\ polls' = 0
    /\ was' = Life(camera, opened, released)
    /\ op' = "show_live_camera"
    /\ held' = Cardinality(opened)
    /\ UNCHANGED <<sel, device_index, frame_resolution, frame_rate, camera, nextHandle,
                   opened, dev, released, files, ncap, exitStatus, windows>>

PreviewIter(dl, rd, key) ==
    /\ pc = "preview"
    /\ now + dl <= MaxTime
    /\ now' = now + dl
    /\ elapsed_time' = now' - start_time
    /\ rd \in ReadOutcomes(camera, opened)
    /\ reads' = Inc(reads)
    /\ IF rd = "fail"
       THEN LET f == PreviewReadFailed(camera, opened)
            IN  /\ opened' = f.opened
                /\ released' = f.released
                /\ dev' = IF isOpened(camera, f.opened) THEN dev ELSE NoDev
                /\ ev' = f.ev
                /\ pc' = f.pc
                /\ exitStatus' = f.exitStatus
                /\ result' = f.result
                /\ UNCHANGED <<shows, polls, windows>>
       ELSE /\ shows' = Inc(shows)
            /\ IF LoopBreak(key, elapsed_time', timeout)
               THEN LET b == PreviewBreak(camera, opened)
                    IN  /\ ev' = <<"read.ok", "putText", "imshow", "waitKey." \o key>>
                                    \o b.ev
                        /\ opened' = b.opened
                        /\ windows' = b.windows
                    /\ polls' = Inc(Inc(polls))
                    /\ pc' = "idle"
                    /\ result' = "returned"
               ELSE /\ ev' = <<"read.ok", "putText", "imshow", "waitKey." \o key>>
                    /\ polls' = Inc(polls)
                    /\ windows' = TRUE
                    /\ pc' = "preview"
                    /\ result' = "running"
                    /\ opened' = opened
            /\ dev' = IF isOpened(camera, opened') THEN dev ELSE NoDev
            /\ UNCHANGED <<released, exitStatus>>
    /\ was' = Life(camera, opened, released)
    /\ op' = "show_live_camera"
    /\ held' = Cardinality(opened)
    /\ UNCHANGED <<sel, device_index, frame_resolution, frame_rate, camera, nextHandle,
                   files, ncap, timeout, start_time, act>>

show_live_camera_loop ==
    \E dl \in 0..MaxDelay, rd \in {"ok", "fail"}, key \in Keys : PreviewIter(dl, rd, key)

(***************************************************************************)
(* take_picture and add_pic_mark.  wo: what cv2.imwrite does ("ok": the    *)
(* file is written, "false": it returns False and writes nothing,          *)
(* "raise"); mo: the same for the imwrite of add_pic_mark.                 *)
(***************************************************************************)
WriteOutcomes == {"ok", "false", "raise"}

\* The arguments and outcomes <<save_path, pic_mark, rd, wo, mo>> of the try
\* block of one take_picture call; what is not consulted is fixed.
CaptureChoices ==
    {<<"Pictures", FALSE, "fail", "ok", "ok">>, <<"None", FALSE, "ok", "ok", "ok">>,
     <<"Pictures", FALSE, "ok", "raise", "ok">>}
    \cup {<<"Pictures", FALSE, "ok", wo, "ok">> : wo \in {"ok", "false"}}
    \cup {<<"Pictures", TRUE, "ok", wo, mo>> : wo \in {"ok", "false"}, mo \in WriteOutcomes}

\* add_pic_mark(file_path, text): the directory and events it leaves, and
\* whether it raised.  cv2.imread gives None for a missing file, and
\* cv2.putText raises on None.
add_pic_mark(fs, name, mo) ==
    IF fs[name] = NoFile
    THEN [files |-> fs, raised |-> TRUE,
          ev |-> <<"imread.none", "putText.raise">>]
    ELSE IF mo = "ok"
    THEN [files |-> [fs EXCEPT ![name].marks = @ + 1], raised |-> FALSE,
          ev |-> <<"imread.ok", "putText", "imwrite.mark.ok">>]
    ELSE [files |-> fs, raised |-> (mo = "raise"),
          ev |-> <<"imread.ok", "putText", "imwrite.mark." \o mo>>]

\* lines 168-181: the try block of take_picture, on the session state the
\* implicit open left
CaptureResult(cam, o, fs, n, t, save_path, label, count, pic_mark, rd, wo, mo) ==
    IF cam = None
    THEN [files |-> fs, ncap |-> n, opened |-> o,
          ev |-> <<"read.raise.AttributeError", "log.error.capture">>]
    ELSE IF rd = "fail"
    THEN [files |-> fs, ncap |-> n, opened |-> o,
          ev |-> <<"read.fail", "log.warning.capture">>]
    ELSE IF save_path = "None"
    THEN \* os.path.join(None, ...) raises TypeError
         [files |-> fs, ncap |-> n + 1, opened |-> o,
          ev |-> <<"read.ok", "join.raise.TypeError", "log.error.capture">>]
    ELSE LET name == <<label, strftime(t), count>>
         IN  IF wo = "raise"
             THEN [files |-> fs, ncap |-> n + 1, opened |-> o,
                   ev |-> <<"read.ok", "imwrite.raise", "log.error.capture">>]
             ELSE LET fs1 == IF wo = "ok"
                             THEN [fs EXCEPT ![name] = [cap |-> n + 1, marks |-> 0, at |-> t]]
                             ELSE fs
                      e1  == <<"read.ok", "imwrite." \o wo, "log.info.saved">>
                  IN  IF ~ pic_mark
                      THEN [files |-> fs1, ncap |-> n + 1, opened |-> o, ev |-> e1]
                      ELSE LET m == add_pic_mark(fs1, name, mo)
                           IN  [files |-> m.files, ncap |-> n + 1, opened |-> o,
                                ev |-> e1 \o <<"call.add_pic_mark">> \o m.ev
                                         \o (IF m.raised THEN <<"log.error.capture">>
                                                         ELSE <<>>)]

\* NeedsOpen with the "not" of line 164 lost
NeedsOpen_NotLost(cam, o) == cam = None \/ isOpened(cam, o)

\* NeedsOpen testing only for None
NeedsOpen_NoneOnly(cam, o) == cam = None

\* line 164
NeedsOpen(cam, o) == cam = None \/ ~ isOpened(cam, o)

take_picture ==
    /\ pc = "idle"
    /\ ncap < MaxCaptures
    /\ \E dl \in 0..MaxDelay, label \in Labels, count \in Counts,
          oc \in OpenChoices, cc \in CaptureChoices :
         LET implicit == NeedsOpen(camera, opened)
             r == IF implicit
                  THEN OpenResult(camera, opened, nextHandle, dev, now + dl,
                                  frame_resolution, frame_rate, oc[1], oc[2], oc[3])
                  ELSE [camera |-> camera, opened |-> opened, nextHandle |-> nextHandle,
                        dev |-> dev, now |-> now + dl, held |-> Cardinality(opened),
                        ev |-> <<>>]
             c == CaptureResult(r.camera, r.opened, files, ncap, r.now, cc[1],
                                label, count, cc[2], cc[3], cc[4], cc[5])
         IN  /\ implicit => nextHandle <= MaxHandles
             /\ ~ implicit => oc = <<"raise", "ok", AllAccepted>>
             /\ r.now <= MaxTime
             /\ cc[3] \in ReadOutcomes(r.camera, r.opened)
             /\ camera' = r.camera
             /\ opened' = c.opened
             /\ nextHandle' = r.nextHandle
             /\ dev' = IF isOpened(r.camera, c.opened) THEN r.dev ELSE NoDev
             /\ now' = r.now
             /\ released' = (released /\ ~ implicit)
             /\ files' = c.files
             /\ ncap' = c.ncap
             /\ held' = r.held
             /\ ev' = (IF implicit
                       THEN <<"log.warning.notopen", "call.open_camera">> \o r.ev
                       ELSE <<>>) \o c.ev
    /\ was' = Life(camera, opened, released)
    /\ op' = "take_picture"
    /\ result' = "returned"
    /\ PreviewLocalsReset
    /\ UNCHANGED <<sel, device_index, frame_resolution, frame_rate, pc, exitStatus, windows>>

Next ==
    \/ open_camera
    \/ show_live_camera_start
    \/ show_live_camera_loop
    \/ take_picture
    \/ release_camera
    \/ __del__

Spec == Init /\ [][Next]_vars

\* The clock advances while the preview loop runs: every iteration takes
\* time (waitKey(1) waits), so iterations that move the clock keep happening.
FairSpec == Spec /\ WF_vars(show_live_camera_loop /\ now' > now)

(***************************************************************************)
(* The script: lines 209-219 run show_and_select_camera, construct the     *)
(* USBCamera with the index it returned, and then call the methods.  eo,   *)
(* en: whether pygame's enumeration raises, and the number of cameras it   *)
(* lists; typed, index: what the operator enters at the prompt.            *)
(***************************************************************************)
MainInit ==
    /\ device_index = NoIndex
    /\ frame_resolution = <<0, 0>>
    /\ frame_rate = 0
    /\ camera = None
    /\ nextHandle = 1
    /\ opened = {}
    /\ dev = NoDev
    /\ released = FALSE
    /\ was = "Unopened"
    /\ now = 0
    /\ files = [f \in FileNames |-> NoFile]
    /\ ncap = 0
    /\ pc = "main"
    /\ exitStatus = 0
    /\ op = "main"
    /\ result = "none"
    /\ ev = <<>>
    /\ timeout = 0
    /\ start_time = 0
    /\ elapsed_time = 0
    /\ act = NoAct
    /\ reads = 0
    /\ shows = 0
    /\ polls = 0
    /\ windows = FALSE
    /\ sel = NoSel
    /\ held = 0

\* InRange that lets the number of cameras itself through
InRange_Inclusive(index, cameras_num) == 0 <= index /\ index <= cameras_num

\* line 69
InRange(index, cameras_num) == 0 <= index /\ index < cameras_num

\* lines 42-75: how the call ends, and what it saw
SelectResult(eo, en, typed, index) ==
    IF eo = "raise"
    THEN [sel |-> NoSel, result |-> "exit",
          ev |-> <<"list_cameras.raise", "log.error.enumerate", "exit.1">>]
    ELSE IF en = 0
    THEN [sel |-> NoSel, result |-> "exit",
          ev |-> <<"list_cameras", "log.error.nocamera", "exit.1">>]
    ELSE IF typed = "nan"
    THEN \* int() raises ValueError, which nothing catches
         [sel |-> [NoSel EXCEPT !.cameras_num = en], result |-> "raised",
          ev |-> <<"list_cameras", "log.info.list", "input", "int.raise.ValueError">>]
    ELSE IF InRange(index, en)
    THEN [sel |-> [cameras_num |-> en, asked |-> TRUE, index |-> index,
                   returned |-> TRUE, id |-> index],
          result |-> "returned",
          ev |-> <<"list_cameras", "log.info.list", "input", "log.info.selection">>]
    ELSE [sel |-> [cameras_num |-> en, asked |-> TRUE, index |-> index,
                   returned |-> FALSE, id |-> 0],
          result |-> "exit",
          ev |-> <<"list_cameras", "log.info.list", "input", "log.error.range",
                   "exit.1">>]

\* line 213; an exit or an uncaught exception ends the process with status 1
show_and_select_camera ==
    /\ pc = "main"
    /\ \E eo \in {"ok", "raise"}, en \in 0..MaxCams, typed \in Typed,
          index \in Inputs :
         LET r == SelectResult(eo, en, typed, index)
         IN  /\ sel' = r.sel
             /\ result' = r.result
             /\ ev' = r.ev
             /\ pc' = IF r.result = "returned" THEN "selected" ELSE "exited"
             /\ exitStatus' = IF r.result = "returned" THEN 0 ELSE 1
    /\ op' = "show_and_select_camera"
    /\ UNCHANGED <<device_index, frame_resolution, frame_rate, camera, nextHandle,
                   opened, dev, released, was, now, files, ncap, timeout,
                   start_time, elapsed_time, act, reads, shows, polls, windows,
                   held>>

\* line 214: USBCamera(device_index=id, frame_resolution=(1280, 720), frame_rate=15);
\* of show_and_select_camera only the value it returned, id, is left
USBCamera ==
    /\ pc = "selected"
    /\ sel' = [NoSel EXCEPT !.returned = TRUE, !.id = sel.id]
    /\ device_index' = sel.id
    /\ frame_resolution' = <<1280, 720>>
    /\ frame_rate' = 15
    /\ camera' = None
    /\ pc' = "idle"
    /\ op' = "__init__"
    /\ result' = "none"
    /\ ev' = <<>>
    /\ UNCHANGED <<nextHandle, opened, dev, released, was, now, files, ncap,
                   exitStatus, timeout, start_time, elapsed_time, act, reads,
                   shows, polls, windows, held>>

MainNext ==
    \/ show_and_select_camera
    \/ USBCamera
    \/ Next

MainSpec == MainInit /\ [][MainNext]_vars

(***************************************************************************)
(* Fault injection for release: a device object whose release() raises.    *)
(* cv2's own release() reports nothing, so Spec has no such step; FaultSpec *)
(* adds it to see what lines 197-205 do with a raising release().  After   *)
(* the fault the device is either closed or still open (closed).           *)
(***************************************************************************)
ReleaseFault(cam, o, closed) ==
    [opened |-> IF closed THEN o \ {cam} ELSE o,
     did    |-> closed,
     result |-> "raised",
     ev     |-> <<"release.raise">>]

\* lines 197-201 have no try/except: the exception of line 200 leaves
\* release_camera and line 201 is not reached
release_camera_fault ==
    /\ pc = "idle"
    /\ isOpened(camera, opened)
    /\ \E closed \in BOOLEAN :
         LET r == ReleaseFault(camera, opened, closed)
         IN  /\ opened' = r.opened
             /\ released' = (released \/ r.did)
             /\ dev' = IF isOpened(camera, r.opened) THEN dev ELSE NoDev
             /\ ev' = r.ev
             /\ result' = r.result
    /\ was' = Life(camera, opened, released)
    /\ op' = "release_camera"
    /\ PreviewLocalsReset
    /\ held' = Cardinality(opened)
    /\ UNCHANGED <<sel, device_index, frame_resolution, frame_rate, camera, nextHandle,
                   now, files, ncap, pc, exitStatus, windows>>

\* lines 203-205: the exception leaves __del__ too; the interpreter prints
\* "Exception ignored in ..." and goes on
del_fault ==
    /\ pc \in {"idle", "exited"}
    /\ isOpened(camera, opened)
    /\ \E closed \in BOOLEAN :
         LET r == ReleaseFault(camera, opened, closed)
         IN  /\ opened' = r.opened
             /\ released' = (released \/ r.did)
             /\ dev' = IF isOpened(camera, r.opened) THEN dev ELSE NoDev
             /\ ev' = r.ev \o <<"unraisable">>
    /\ was' = Life(camera, opened, released)
    /\ pc' = "deleted"
    /\ op' = "__del__"
    /\ result' = "returned"
    /\ PreviewLocalsReset
    /\ held' = Cardinality(opened)
    /\ UNCHANGED <<sel, device_index, frame_resolution, frame_rate, camera, nextHandle,
                   now, files, ncap, exitStatus, windows>>

NextFault ==
    \/ Next
    \/ release_camera_fault
    \/ del_fault

FaultSpec == Init /\ [][NextFault]_vars

(***************************************************************************)
(* Properties                                                              *)
(***************************************************************************)
ReleaseOps == {"release_camera", "__del__"}
CtorEvents == {"VideoCapture.opened", "VideoCapture.closed", "VideoCapture.raise"}
OpenEvents == {"open.ok", "open.fail", "open.raise"}
AcqEvents == CtorEvents \cup OpenEvents
ReadEvents == {"read.ok", "read.fail", "read.raise.AttributeError"}
ShowEvents == {"imshow", "waitKey", "waitKey.q", "waitKey.none"}
SetEventSet == {SetEvents[i] : i \in 1..Len(SetEvents)}
Scaled(c) == [w |-> c.w * Scale, h |-> c.h * Scale, fps |-> c.fps * Scale]
Truncated(d) == [w |-> d.w \div Scale, h |-> d.h \div Scale, fps |-> d.fps \div Scale]
Acquired(e) == Has("VideoCapture.opened", e) \/ Has("open.ok", e)

\* C1: a release call (release_camera or the teardown __del__) on a session
\* whose handle was never acquired or was already released returns normally
\* and leaves the session state unchanged, so open, release, release does
\* not fault.
C1_ReleaseIdempotent ==
    [][ (op' \in ReleaseOps /\ ~ isOpened(camera, opened)) =>
          /\ result' = "returned"
          /\ camera' = camera
          /\ opened' = opened
          /\ dev' = dev
          /\ files' = files
          /\ nextHandle' = nextHandle
          /\ UNCHANGED <<device_index, frame_resolution, frame_rate>> ]_vars

\* C1 witness: a second release_camera on a released session has returned.
C1_Witness ==
    /\ op = "release_camera"
    /\ was = "Released"
    /\ result = "returned"
    /\ camera # None

C3_ReleasedCallsFail ==
    (was = "Released" /\ op \in {"show_live_camera", "take_picture"}) =>
        /\ result = "raised"
        /\ ev = <<"raise.SessionClosed">>

\* C3 amended: once released, a capture call before a re-open logs a warning
\* and makes one implicit open attempt before its frame read, and writes a
\* file only if that attempt acquired the device; a preview call obtains no
\* frame and displays nothing: its first read fails and the process exits
\* with status 1.
C3_ReleasedCallsReopenOrExit ==
    was = "Released" =>
        /\ op = "take_picture" =>
              /\ Len(ev) >= 3
              /\ ev[1] = "log.warning.notopen"
              /\ ev[2] = "call.open_camera"
              /\ Count({"call.open_camera"}, ev) = 1
              /\ \A i \in 1..Len(ev) : ev[i] \in ReadEvents => i > 3
              /\ (Has("read.ok", ev) \/ Has("imwrite.ok", ev)) =>
                     Acquired(ev) /\ isOpened(camera, opened)
        /\ op = "show_live_camera" =>
              /\ shows = 0
              /\ ~ windows
              /\ act = NoAct
              /\ ~ Has("read.ok", ev)
              /\ (pc = "preview" => reads = 0)
              /\ (pc # "preview" => pc = "exited" /\ exitStatus = 1 /\ ev[1] = "read.fail")

\* C3 witness: a capture on a released session has re-opened the device and
\* written a file.
C3_Witness ==
    /\ op = "take_picture"
    /\ was = "Released"
    /\ Has("imwrite.ok", ev)

\* C4 as stated: a capture on an Unopened session makes exactly one implicit
\* open attempt, before the frame read; if that open does not acquire the
\* device, no file is written and the open failure is surfaced to the caller
\* instead of a normal return or a frame-read warning.
C4_ImplicitOpenFailureSurfaced ==
    (op = "take_picture" /\ was = "Unopened") =>
        /\ Count({"call.open_camera"}, ev) = 1
        /\ \A i, j \in 1..Len(ev) :
              (ev[i] = "call.open_camera" /\ ev[j] \in ReadEvents) => i < j
        /\ ~ Acquired(ev) =>
              /\ ~ Has("imwrite.ok", ev)
              /\ result # "returned"
              /\ ~ Has("log.warning.capture", ev)

\* C5: a capture on an Open session reads a frame from the same handle with
\* no implicit open; when that read fails the call returns normally, the
\* session is still Open and no file is produced, so the next capture again
\* reads from that handle.
C5_CaptureReadFailureRecoverable ==
    [][ (op' = "take_picture" /\ isOpened(camera, opened)) =>
          /\ camera' = camera
          /\ ev'[1] \in {"read.ok", "read.fail"}
          /\ ev'[1] = "read.fail" =>
                /\ result' = "returned"
                /\ isOpened(camera', opened')
                /\ files' = files
                /\ pc' = "idle" ]_vars

\* C5 witness: a capture on an Open session whose frame read failed.
C5_Witness ==
    /\ op = "take_picture"
    /\ was = "Open"
    /\ ev = <<"read.fail", "log.warning.capture">>
    /\ isOpened(camera, opened)

\* C6: a failed frame read in the preview loop releases the handle and
\* terminates the process with a non-zero status, with no display or key
\* poll after the failed read, and no frame read, display or key poll ever
\* after.
C6_PreviewReadFailureFatal ==
    /\ [][ (pc = "preview" /\ ev'[1] = "read.fail") =>
             /\ ~ isOpened(camera', opened')
             /\ ev'[2] \in {"release.closed", "release.noop"}
             /\ pc' = "exited"
             /\ exitStatus' # 0
             /\ result' = "exit"
             /\ shows' = shows
             /\ polls' = polls
             /\ windows' = windows
             /\ Count(ReadEvents \cup ShowEvents, ev') = 1 ]_vars
    /\ [][ pc = "exited" =>
             /\ op' = "__del__"
             /\ Count(ReadEvents \cup ShowEvents, ev') = 0 ]_vars

\* C6 witness: the second frame read of a preview on an Open session failed
\* and the process has exited.
C6_Witness ==
    /\ pc = "exited"
    /\ exitStatus = 1
    /\ was = "Open"
    /\ reads = 2
    /\ shows = 1

\* C7: preview always ends; an iteration that starts with the elapsed time
\* past the timeout is the last one, whatever the key poll returns; and when
\* the first key poll reports the cancel key, preview returns after exactly
\* one frame read and one display.
C7_PreviewTerminates ==
    /\ (pc = "preview") ~> (pc # "preview")
    /\ [][ (pc = "preview" /\ now' - start_time > timeout * TicksPerSec) =>
             pc' # "preview" ]_vars
    /\ [][ (pc = "preview" /\ reads = 0 /\ Has("waitKey.q", ev')) =>
             /\ pc' = "idle"
             /\ result' = "returned"
             /\ reads' = 1
             /\ shows' = 1 ]_vars

\* C7 witness: a preview has returned on timeout, no cancel key pressed.
C7_Witness ==
    /\ op = "show_live_camera"
    /\ pc = "idle"
    /\ result = "returned"
    /\ Has("waitKey.none", ev)
    /\ elapsed_time > timeout * TicksPerSec

\* C8 as stated: when open cannot acquire the device, the failure is
\* reported and the process terminates; no parameter is applied and open
\* does not return as if it had succeeded.
C8_OpenFailureFatal ==
    (op = "open_camera" /\ ~ Acquired(ev)) =>
        /\ Has("log.error.open", ev)
        /\ pc = "exited"
        /\ exitStatus # 0
        /\ result # "returned"
        /\ Count(SetEventSet, ev) = 0
        /\ ~ Has("log.info.config", ev)

\* C9 as stated: a call makes at most one attempt to acquire the device.
C9_SingleAcquisitionAttempt == Count(AcqEvents, ev) <= 1

\* C9 amended: a call makes at most two attempts to acquire the device, the
\* VideoCapture constructor and, only when the handle it returned is not
\* opened, one camera.open; a failed camera.open or a failed frame read is
\* never followed by another acquisition attempt or read in the same call.
C9_AtMostOneReopen ==
    /\ Count(CtorEvents, ev) <= 1
    /\ Count(OpenEvents, ev) <= 1
    /\ \A i \in 1..Len(ev) :
          /\ ev[i] \in OpenEvents => i > 1 /\ ev[i - 1] = "VideoCapture.closed"
          /\ ev[i] \in {"open.fail", "open.raise"} =>
                \A j \in (i + 1)..Len(ev) : ev[j] \notin AcqEvents
          /\ ev[i] = "read.fail" =>
                \A j \in (i + 1)..Len(ev) : ev[j] \notin AcqEvents \cup ReadEvents

\* C9 witness: an open_camera call whose constructor returned a closed
\* handle and whose one camera.open failed.
C9_Witness ==
    /\ op = "open_camera"
    /\ Has("VideoCapture.closed", ev)
    /\ Has("open.fail", ev)

\* C10 as stated: after open on a device that substitutes its own resolution
\* or rate, the configuration open reports and the values preview renders
\* equal the values the device negotiated.
C10_ReportsNegotiated ==
    /\ (op = "open_camera" /\ Acquired(ev) /\ Has("log.info.config", ev)) =>
          Scaled(OpenLogConfig) = dev
    /\ (op = "show_live_camera" /\ isOpened(camera, opened)) => Scaled(act) = dev

\* C10 amended: open on a device that substitutes its own resolution or rate
\* does not fail, and the values preview renders are the device's negotiated
\* values truncated to integers (the configuration open logs is the
\* requested one).
C10_PreviewRendersTruncatedNegotiated ==
    /\ (op = "open_camera" /\ Acquired(ev) /\ dev # Scaled(OpenLogConfig)) =>
          /\ result = "returned"
          /\ isOpened(camera, opened)
          /\ ~ Has("log.error.open", ev)
          /\ Has("log.info.config", ev)
    /\ (op = "show_live_camera" /\ isOpened(camera, opened)) => act = Truncated(dev)

\* C10 witness: a preview runs on a device that kept its own resolution and
\* rate, and renders neither the requested nor the exact negotiated rate.
C10_Witness ==
    /\ op = "show_live_camera"
    /\ pc = "preview"
    /\ isOpened(camera, opened)
    /\ dev = DevDefault
    /\ act.w # frame_resolution[1]
    /\ act.fps # frame_rate
    /\ act.fps * Scale # dev.fps

WriteFailures == {"imwrite.false", "imwrite.raise"}
MarkFailures == {"imread.none", "putText.raise", "imwrite.mark.false", "imwrite.mark.raise"}

\* C11 as stated: a failure of the write step or of the annotate step of a
\* capture is reported as an error, the capture is never reported as saved
\* when the write failed, no fault leaves take_picture, and an Open session
\* stays Open with the same handle.
C11_PersistFailureReported ==
    [][ (op' = "take_picture" /\ Count(WriteFailures \cup MarkFailures, ev') > 0) =>
          /\ Has("log.error.capture", ev')
          /\ (Count(WriteFailures, ev') > 0 => ~ Has("log.info.saved", ev'))
          /\ result' = "returned"
          /\ (isOpened(camera, opened) =>
                camera' = camera /\ isOpened(camera', opened')) ]_vars

\* C12 as stated: release never reports or propagates an error; when the
\* device's release() faults, release_camera and __del__ both swallow the
\* fault and return normally.
C12_ReleaseSwallowsFault ==
    (op \in ReleaseOps /\ Has("release.raise", ev)) => result = "returned"

\* C13: a capture that writes its file successfully writes it under the name
\* built from the label, the second of its own timestamp and the counter,
\* and every file written by an earlier capture whose timestamp lies at
\* least one second back has another name and is left as it was: both files
\* exist afterwards and neither overwrote the other.
C13_DistinctSecondsDistinctFiles ==
    [][ (op' = "take_picture" /\ Has("imwrite.ok", ev')) =>
          \E g \in FileNames :
             /\ files'[g].cap = ncap'
             /\ files'[g].at = now'
             /\ g[2] = strftime(now')
             /\ \A h \in FileNames :
                  (files[h] # NoFile /\ now' - files[h].at >= TicksPerSec) =>
                     (h # g /\ files'[h] = files[h]) ]_vars

C13_Witness ==
    /\ op = "take_picture"
    /\ Has("imwrite.ok", ev)
    /\ \E g, h \in FileNames :
          /\ g # h
          /\ files[h].cap = 1
          /\ files[g].cap = 2
          /\ files[g].at - files[h].at >= TicksPerSec

Reports == {"log.error.capture", "log.warning.capture"}

\* C14 as stated: a successful capture never silently overwrites the file
\* an earlier capture wrote with the same directory, label and counter in
\* the same clock second: the earlier file is left alone (the new file has
\* another path), or the call tells its caller (it does not return
\* normally, or it reports a warning or an error).
C14_NoSilentOverwrite ==
    [][ (op' = "take_picture" /\ Has("imwrite.ok", ev')) =>
          \A g \in FileNames :
             (files[g] # NoFile /\ files'[g].cap # files[g].cap) =>
                (result' # "returned" \/ Count(Reports, ev') > 0) ]_vars

\* C15: show_and_select_camera returns an index only when the enumeration
\* yielded a non-empty list and the index the operator entered lies in
\* [0, count-1], and the index it returns, the one the USBCamera is built
\* with, is exactly that index; with an empty list or an index outside the
\* range the process stops with a non-zero status, no index is returned,
\* and no USBCamera is constructed and no device is ever opened.
C15_SelectionValidated ==
    /\ (op = "show_and_select_camera" /\ sel.returned) =>
         /\ sel.cameras_num > 0
         /\ sel.asked
         /\ sel.index \in 0..(sel.cameras_num - 1)
         /\ sel.id = sel.index
    /\ (op = "show_and_select_camera" /\ result = "returned") => sel.returned
    /\ device_index # NoIndex => (sel.returned /\ device_index = sel.id)
    /\ (op = "show_and_select_camera"
          /\ (Has("log.error.nocamera", ev)
                \/ (sel.asked /\ sel.index \notin 0..(sel.cameras_num - 1)))) =>
         /\ pc = "exited"
         /\ exitStatus # 0
         /\ result = "exit"
         /\ ~ sel.returned
    /\ ~ sel.returned =>
         /\ device_index = NoIndex
         /\ camera = None
         /\ opened = {}
         /\ nextHandle = 1

C15_Witness ==
    /\ op = "open_camera"
    /\ isOpened(camera, opened)
    /\ sel.returned
    /\ sel.id = MaxCams - 1
    /\ device_index = sel.id

\* C16 as stated: every frame read of the preview loop happens while the
\* elapsed time since preview start is strictly less than the timeout, so
\* a preview with timeout 0 reads and displays no frame.
C16_ReadsOnlyBeforeTimeout ==
    (op = "show_live_camera" /\ Count(ReadEvents, ev) > 0) =>
        elapsed_time < timeout * TicksPerSec

\* C16, amended: the loop reads a frame in every iteration and tests the
\* timeout only afterwards.  An iteration after which the loop goes on read
\* its frame with the elapsed time at most the timeout; a frame read with
\* the elapsed time past the timeout is the last one of the preview.  A
\* preview that ended has read at least one frame, and one that returned
\* has displayed at least one, whatever the timeout, 0 included.
C16_ReadsUntilPastTimeout ==
    /\ (op = "show_live_camera" /\ pc = "preview" /\ reads > 0) =>
          elapsed_time <= timeout * TicksPerSec
    /\ (op = "show_live_camera" /\ Count(ReadEvents, ev) > 0
          /\ elapsed_time > timeout * TicksPerSec) => pc # "preview"
    /\ (op = "show_live_camera" /\ result \in {"returned", "exit"}) => reads >= 1
    /\ (op = "show_live_camera" /\ result = "returned") =>
          (shows >= 1 /\ Has("read.ok", ev) /\ Has("imshow", ev))

\* C16 witness: a preview with timeout 0 has read and displayed two frames,
\* the second one with the elapsed time past the timeout.
C16_Witness ==
    /\ op = "show_live_camera"
    /\ result = "returned"
    /\ timeout = 0
    /\ elapsed_time > 0
    /\ reads = 2
    /\ shows = 2

\* C17 as stated: on every path by which a preview that has displayed at
\* least one frame stops (cancel key, timeout, failed frame read in a later
\* iteration), the display resources are released: the step that ends the
\* preview calls destroyAllWindows and leaves no window open.
C17_WindowsClosedOnEveryExit ==
    (op = "show_live_camera" /\ pc # "preview" /\ shows >= 1) =>
        (Has("destroyAllWindows", ev) /\ ~ windows)

\* C18 as stated: a capture call reads exactly one frame, and the annotate
\* step runs only on the file this call has just written successfully:
\* never after a failed frame read or a failed write, and no file that an
\* earlier capture left is rewritten.
C18_AnnotateOnlyOwnFile ==
    [][ op' = "take_picture" =>
          /\ Count(ReadEvents, ev') = 1
          /\ Has("call.add_pic_mark", ev') =>
                (Has("read.ok", ev') /\ Has("imwrite.ok", ev'))
          /\ \A g \in FileNames :
                files'[g] # files[g] =>
                   (Has("imwrite.ok", ev') /\ files'[g].cap = ncap') ]_vars

\* C19 as stated: after a release call returns the session has no open
\* device left, whatever calls came before, open_camera on an Open session
\* included; and at no instant does the session hold more than one open
\* device.
C19_AtMostOneHandleHeld ==
    /\ Cardinality(opened) <= 1
    /\ op \in ReleaseOps => opened = {}
    /\ held <= 1

\* C20: a preview that ends by the cancel key or by the timeout leaves the
\* session as it was: the handle is the same and its device still open, the
\* device index, the requested resolution and frame rate and the negotiated
\* parameters are unchanged; a capture called directly after it makes no
\* implicit open and reads from that same handle.
C20_PreviewLeavesSession ==
    /\ [][ (pc = "preview" /\ pc' = "idle") =>
             /\ camera' = camera
             /\ opened' = opened
             /\ isOpened(camera', opened')
             /\ dev' = dev
             /\ UNCHANGED <<device_index, frame_resolution, frame_rate>> ]_vars
    /\ [][ (op = "show_live_camera" /\ result = "returned"
              /\ op' = "take_picture") =>
             /\ camera' = camera
             /\ ~ Has("call.open_camera", ev')
             /\ Count(AcqEvents, ev') = 0
             /\ ev'[1] \in {"read.ok", "read.fail"} ]_vars

\* C20 witness: a preview on an Open session has returned on the cancel key.
C20_Witness ==
    /\ op = "show_live_camera"
    /\ pc = "idle"
    /\ result = "returned"
    /\ Has("waitKey.q", ev)
    /\ was = "Open"
    /\ isOpened(camera, opened)
    /\ dev # NoDev
====
